---- MODULE Spec2Model ----
(***************************************************************************)
(* Model of misago/users/views/profile.py: the profile actions             *)
(* (follow_user / block_user behind action_view) as concurrent requests    *)
(* against a shared user store, and the warnings page of the profile.      *)
(***************************************************************************)
EXTENDS Integers, Sequences, FiniteSets, TLC

\* ---------------------------------------------------------------- bounds
NumUsers == 2
NumProcs == 2
MaxRequests == 2
MaxWarnings == 8
MaxLevels == 4

\* ------------------------------------------------------ program constants
WarningsPerPage == 5
WarningsOrphans == 2

Users == 1..NumUsers
Procs == 1..NumProcs
Guest == 0

VARIABLES
    db,       \* committed store: follows, blocks (edge sets), followers, following (counters)
    pc,       \* pc[p]: position of request worker p
    req,      \* req[p]: the request in flight, and what its toggle did
    held,     \* held[p]: user rows worker p holds a select_for_update lock on
    wset,     \* wset[p]: writes of p's open transaction, not yet committed
    resp,     \* the response sent last, with what it answers
    nreq,     \* number of requests issued so far
    start,    \* the store at the start, and the requester/target of a scripted scenario
    target,   \* warnings page: the profile's warnings (cancellation flags, newest first),
              \*   its warning level and the number of configured levels
    view      \* warnings page: the outcome of the last rendering

vars == <<db, pc, req, held, wset, resp, nreq, start, target, view>>

\* ------------------------------------------------------------ the store
CountFollowers(fs, u) == Cardinality({e \in fs : e[2] = u})
CountFollows(fs, u) == Cardinality({e \in fs : e[1] = u})

EmptyDb ==
    [follows |-> {}, blocks |-> {},
     followers |-> [u \in Users |-> 0], following |-> [u \in Users |-> 0]]

\* a store as sequences of follow actions leave it: any edges, matching counters
DbWith(fs) ==
    [follows |-> fs, blocks |-> {},
     followers |-> [u \in Users |-> CountFollowers(fs, u)],
     following |-> [u \in Users |-> CountFollows(fs, u)]]

Write(op, a, b) == [op |-> op, a |-> a, b |-> b]

ApplyWrite(d, w) ==
    CASE w.op = "follows_add"    -> [d EXCEPT !.follows = @ \cup {<<w.a, w.b>>}]
      [] w.op = "follows_remove" -> [d EXCEPT !.follows = @ \ {<<w.a, w.b>>}]
      [] w.op = "blocks_add"     -> [d EXCEPT !.blocks = @ \cup {<<w.a, w.b>>}]
      [] w.op = "blocks_remove"  -> [d EXCEPT !.blocks = @ \ {<<w.a, w.b>>}]
      [] w.op = "save_followers" -> [d EXCEPT !.followers[w.a] = w.b]
      [] w.op = "save_following" -> [d EXCEPT !.following[w.a] = w.b]

RECURSIVE ApplyWrites(_, _)
ApplyWrites(d, ws) ==
    IF ws = <<>> THEN d ELSE ApplyWrites(ApplyWrite(d, Head(ws)), Tail(ws))

\* what worker p reads: the committed store plus its own transaction's writes
Visible(p) == ApplyWrites(db, wset[p])

\* ------------------------------------------------------------- requests
Kinds == {"follow", "block"}
Methods == {"POST", "GET"}
ReturnPaths == {"absent", "valid", "invalid"}

\* a request: who asks, how, and the user_id / user_slug of the url
\* (id NumUsers + 1 is an id no user has)
Requests ==
    [kind : Kinds, user : {Guest} \cup Users, method : Methods,
     id : 1..(NumUsers + 1), slug_ok : BOOLEAN]

NoReq == [kind |-> "none", user |-> 0, method |-> "none", id |-> 0, slug_ok |-> FALSE,
          did |-> "none"]

\* what a response is the response to: the kind of action, whether a guest
\* asked, whether with POST, whether id and slug name a user, and the request's
\* is_ajax() and return path
Asked(rq, ajax, path) ==
    [kind |-> rq.kind, guest |-> (rq.user = Guest), post |-> (rq.method = "POST"),
     resolved |-> (rq.id \in Users /\ rq.slug_ok), ajax |-> ajax, path |-> path]

NoOut ==
    [status |-> "none", outcome |-> FALSE, is_error |-> FALSE, message |-> "none",
     queued |-> 0, to |-> "none", at |-> "none"]

NoResp == [rq |-> Asked(NoReq, FALSE, "absent"), out |-> NoOut]

\* deny_guests
DenyGuests(rq) == rq.user = Guest

\* require_POST
RequirePOST(rq) == rq.method # "POST"

\* profile_view: get_object_or_404 on user_id, validate_slug on user_slug
ProfileNotFound(rq) == rq.id \notin Users \/ ~rq.slug_ok

ErrorOut(status) == [NoOut EXCEPT !.status = status]

InTx == {"lock_profile", "lock_user", "toggle", "save_followers", "save_following", "respond"}

\* Request without require_POST in the decorator stack
RequestAnyMethod(p, rq) ==
    /\ pc[p] = "idle"
    /\ nreq < MaxRequests
    /\ nreq' = nreq + 1
    /\ IF DenyGuests(rq)
         THEN /\ resp' = [rq |-> Asked(rq, FALSE, "absent"), out |-> ErrorOut("denied")]
              /\ pc' = [pc EXCEPT ![p] = "idle"]
              /\ req' = [req EXCEPT ![p] = NoReq]
       ELSE IF ProfileNotFound(rq)
         THEN /\ resp' = [rq |-> Asked(rq, FALSE, "absent"), out |-> ErrorOut("not_found")]
              /\ pc' = [pc EXCEPT ![p] = "idle"]
              /\ req' = [req EXCEPT ![p] = NoReq]
       ELSE /\ resp' = resp
            /\ pc' = [pc EXCEPT ![p] = "lock_profile"]
            /\ req' = [req EXCEPT ![p] =
                         [kind |-> rq.kind, user |-> rq.user, method |-> rq.method,
                          id |-> rq.id, slug_ok |-> rq.slug_ok, did |-> "none"]]
    /\ UNCHANGED <<db, held, wset, start, target, view>>

\* action_view: deny_guests, require_POST, profile_view, then atomic opens
Request(p, rq) ==
    /\ pc[p] = "idle"
    /\ nreq < MaxRequests
    /\ nreq' = nreq + 1
    /\ IF DenyGuests(rq)
         THEN /\ resp' = [rq |-> Asked(rq, FALSE, "absent"), out |-> ErrorOut("denied")]
              /\ pc' = [pc EXCEPT ![p] = "idle"]
              /\ req' = [req EXCEPT ![p] = NoReq]
       ELSE IF RequirePOST(rq)
         THEN /\ resp' = [rq |-> Asked(rq, FALSE, "absent"), out |-> ErrorOut("method_not_allowed")]
              /\ pc' = [pc EXCEPT ![p] = "idle"]
              /\ req' = [req EXCEPT ![p] = NoReq]
       ELSE IF ProfileNotFound(rq)
         THEN /\ resp' = [rq |-> Asked(rq, FALSE, "absent"), out |-> ErrorOut("not_found")]
              /\ pc' = [pc EXCEPT ![p] = "idle"]
              /\ req' = [req EXCEPT ![p] = NoReq]
       ELSE /\ resp' = resp
            /\ pc' = [pc EXCEPT ![p] = "lock_profile"]
            /\ req' = [req EXCEPT ![p] =
                         [kind |-> rq.kind, user |-> rq.user, method |-> rq.method,
                          id |-> rq.id, slug_ok |-> rq.slug_ok, did |-> "none"]]
    /\ UNCHANGED <<db, held, wset, start, target, view>>

\* User.lock(): select_for_update of one user row, granted when no other
\* transaction holds it, kept until the transaction ends
Lock(p, u) ==
    /\ \A q \in Procs \ {p} : u \notin held[q]
    /\ held' = [held EXCEPT ![p] = @ \cup {u}]

\* LockProfile as f(request, profile): the target's row is not locked
LockProfileSkipped(p) ==
    /\ pc[p] = "lock_profile"
    /\ pc' = [pc EXCEPT ![p] = "lock_user"]
    /\ UNCHANGED <<db, req, held, wset, resp, nreq, start, target, view>>

\* action_view: f(request, profile.lock())
LockProfile(p) ==
    /\ pc[p] = "lock_profile"
    /\ Lock(p, req[p].id)
    /\ pc' = [pc EXCEPT ![p] = "lock_user"]
    /\ UNCHANGED <<db, req, wset, resp, nreq, start, target, view>>

\* follow_user: user_locked = request.user.lock()
FollowLockUser(p) ==
    /\ pc[p] = "lock_user"
    /\ req[p].kind = "follow"
    /\ Lock(p, req[p].user)
    /\ pc' = [pc EXCEPT ![p] = "toggle"]
    /\ UNCHANGED <<db, req, wset, resp, nreq, start, target, view>>

\* block_user: user_locked = request.user.lock()
BlockLockUser(p) ==
    /\ pc[p] = "lock_user"
    /\ req[p].kind = "block"
    /\ Lock(p, req[p].user)
    /\ pc' = [pc EXCEPT ![p] = "toggle"]
    /\ UNCHANGED <<db, req, wset, resp, nreq, start, target, view>>

\* FollowToggle that adds the edge whether or not it is there
FollowToggleAlwaysAdds(p) ==
    /\ pc[p] = "toggle"
    /\ req[p].kind = "follow"
    /\ wset' = [wset EXCEPT ![p] = Append(@, Write("follows_add", req[p].user, req[p].id))]
    /\ req' = [req EXCEPT ![p].did = "do"]
    /\ pc' = [pc EXCEPT ![p] = "save_followers"]
    /\ UNCHANGED <<db, held, resp, nreq, start, target, view>>

\* follow_user: is_following, then follows.remove / follows.add
FollowToggle(p) ==
    /\ pc[p] = "toggle"
    /\ req[p].kind = "follow"
    /\ LET e == <<req[p].user, req[p].id>> IN
         IF e \in Visible(p).follows
           THEN /\ wset' = [wset EXCEPT ![p] = Append(@, Write("follows_remove", e[1], e[2]))]
                /\ req' = [req EXCEPT ![p].did = "undo"]
           ELSE /\ wset' = [wset EXCEPT ![p] = Append(@, Write("follows_add", e[1], e[2]))]
                /\ req' = [req EXCEPT ![p].did = "do"]
    /\ pc' = [pc EXCEPT ![p] = "save_followers"]
    /\ UNCHANGED <<db, held, resp, nreq, start, target, view>>

\* SaveFollowers that counts the target's own follows instead of its followers
SaveFollowersWrongSide(p) ==
    /\ pc[p] = "save_followers"
    /\ LET t == req[p].id IN
         wset' = [wset EXCEPT ![p] =
                    Append(@, Write("save_followers", t, CountFollows(Visible(p).follows, t)))]
    /\ pc' = [pc EXCEPT ![p] = "save_following"]
    /\ UNCHANGED <<db, req, held, resp, nreq, start, target, view>>

\* follow_user: profile.followers = profile.followed_by.count(); save
SaveFollowers(p) ==
    /\ pc[p] = "save_followers"
    /\ LET t == req[p].id IN
         wset' = [wset EXCEPT ![p] =
                    Append(@, Write("save_followers", t, CountFollowers(Visible(p).follows, t)))]
    /\ pc' = [pc EXCEPT ![p] = "save_following"]
    /\ UNCHANGED <<db, req, held, resp, nreq, start, target, view>>

\* follow_user: user_locked.following = user_locked.follows.count(); save
SaveFollowing(p) ==
    /\ pc[p] = "save_following"
    /\ LET r == req[p].user IN
         wset' = [wset EXCEPT ![p] =
                    Append(@, Write("save_following", r, CountFollows(Visible(p).follows, r)))]
    /\ pc' = [pc EXCEPT ![p] = "respond"]
    /\ UNCHANGED <<db, req, held, resp, nreq, start, target, view>>

\* block_user: is_blocking, then blocks.remove / blocks.add
BlockToggle(p) ==
    /\ pc[p] = "toggle"
    /\ req[p].kind = "block"
    /\ LET e == <<req[p].user, req[p].id>> IN
         IF e \in Visible(p).blocks
           THEN /\ wset' = [wset EXCEPT ![p] = Append(@, Write("blocks_remove", e[1], e[2]))]
                /\ req' = [req EXCEPT ![p].did = "undo"]
           ELSE /\ wset' = [wset EXCEPT ![p] = Append(@, Write("blocks_add", e[1], e[2]))]
                /\ req' = [req EXCEPT ![p].did = "do"]
    /\ pc' = [pc EXCEPT ![p] = "respond"]
    /\ UNCHANGED <<db, held, resp, nreq, start, target, view>>

\* the message of follow_user / block_user
Message(kind, did) ==
    IF kind = "follow"
      THEN (IF did = "do" THEN "now_following" ELSE "stopped_following")
      ELSE (IF did = "do" THEN "now_blocking" ELSE "stopped_blocking")

\* `if request.is_ajax:` tests the bound method, not its result: always true
IsAjaxAttribute(ajax) == TRUE

\* what the handler returns: the dict, or None after queueing the message itself
HandlerResult(kind, did, ajax) ==
    IF IsAjaxAttribute(ajax)
      THEN [dict |-> TRUE, outcome |-> (did = "do"), message |-> Message(kind, did), queued |-> 0]
      ELSE [dict |-> FALSE, outcome |-> FALSE, message |-> "none", queued |-> 1]

\* clean_return_path: the caller's return path when present and valid, else nothing
CleanReturnPath(path) == IF path = "valid" THEN "return_path" ELSE "none"

\* ActionResponse that never looks at the return path
ActionResponseToProfile(res, ajax, path) ==
    IF ajax
      THEN [NoOut EXCEPT !.status = "json", !.outcome = res.outcome, !.is_error = FALSE,
                         !.message = res.message, !.queued = res.queued]
      ELSE [NoOut EXCEPT !.status = "redirect", !.outcome = res.outcome,
                         !.message = res.message, !.queued = res.queued + 1,
                         !.to = "profile"]

\* action_view after the handler returned: JsonResponse, or message and redirect
ActionResponse(res, ajax, path) ==
    IF ajax
      THEN [NoOut EXCEPT !.status = "json", !.outcome = res.outcome, !.is_error = FALSE,
                         !.message = res.message, !.queued = res.queued]
      ELSE [NoOut EXCEPT !.status = "redirect", !.outcome = res.outcome,
                         !.message = res.message, !.queued = res.queued + 1,
                         !.to = IF CleanReturnPath(path) # "none"
                                  THEN CleanReturnPath(path) ELSE "profile"]

ServerError(at) == [NoOut EXCEPT !.status = "server_error", !.at = at]

\* Rollback without atomic: the writes made so far stay
RollbackKeepsWrites(p) ==
    /\ db' = ApplyWrites(db, wset[p])
    /\ wset' = [wset EXCEPT ![p] = <<>>]
    /\ held' = [held EXCEPT ![p] = {}]

\* atomic on an exception: the transaction's writes are dropped, its locks released
Rollback(p) ==
    /\ wset' = [wset EXCEPT ![p] = <<>>]
    /\ held' = [held EXCEPT ![p] = {}]
    /\ UNCHANGED db

\* atomic on return: the transaction's writes become the committed store
Commit(p) ==
    /\ db' = ApplyWrites(db, wset[p])
    /\ wset' = [wset EXCEPT ![p] = <<>>]
    /\ held' = [held EXCEPT ![p] = {}]

\* action_view: shape the handler's result, then leave atomic
Respond(p, ajax, path) ==
    /\ pc[p] = "respond"
    /\ LET res == HandlerResult(req[p].kind, req[p].did, ajax) IN
         IF res.dict
           THEN /\ resp' = [rq |-> Asked(req[p], ajax, path), out |-> ActionResponse(res, ajax, path)]
                /\ Commit(p)
           ELSE \* subscripting None raises inside atomic
                /\ resp' = [rq |-> Asked(req[p], ajax, path), out |-> ServerError(pc[p])]
                /\ Rollback(p)
    /\ pc' = [pc EXCEPT ![p] = "idle"]
    /\ req' = [req EXCEPT ![p] = NoReq]
    /\ UNCHANGED <<nreq, start, target, view>>

\* an exception at any statement inside atomic (a persistence error, or the
\* database choosing this transaction as the victim of a deadlock)
Fail(p) ==
    /\ pc[p] \in InTx
    /\ resp' = [rq |-> Asked(req[p], FALSE, "absent"), out |-> ServerError(pc[p])]
    /\ Rollback(p)
    /\ pc' = [pc EXCEPT ![p] = "idle"]
    /\ req' = [req EXCEPT ![p] = NoReq]
    /\ UNCHANGED <<nreq, start, target, view>>

Idle ==
    /\ pc = [p \in Procs |-> "idle"]
    /\ req = [p \in Procs |-> NoReq]
    /\ held = [p \in Procs |-> {}]
    /\ wset = [p \in Procs |-> <<>>]
    /\ resp = NoResp
    /\ nreq = 0

\* ------------------------------------------------------- the warnings page
NoTarget == [warnings |-> <<>>, level |-> 0, levels |-> 1]
NoView == [status |-> "none", number |-> 0, start_index |-> 0, marks |-> <<>>,
           items_left |-> 0, progress |-> 0, level_set |-> FALSE]

Min(a, b) == IF a < b THEN a ELSE b
Max(a, b) == IF a > b THEN a ELSE b

\* the sequences of cancellation flags of length n
FlagSeqs(n) == [1..n -> BOOLEAN]

NonCanceled(ws) == Cardinality({i \in DOMAIN ws : ~ws[i]})

\* paginate(qs, page, per_page, orphans): the number of pages
NumPages(count, per_page, orphans) ==
    (Max(1, count - orphans) + per_page - 1) \div per_page

\* paginate(qs, page, per_page, orphans): one page, or nothing when there is no such page
\* (page 0, the handlers' default, is the first page)
Paginate(ws, page, per_page, orphans) ==
    LET count == Len(ws)
        number == IF page = 0 THEN 1 ELSE page
        pages == NumPages(count, per_page, orphans)
        bottom == (number - 1) * per_page
        top == IF bottom + per_page + orphans >= count THEN count ELSE bottom + per_page
    IN  IF number > pages
          THEN [found |-> FALSE, number |-> number, object_list |-> <<>>, count |-> count,
                start_index |-> 0, end_index |-> 0]
          ELSE [found |-> TRUE, number |-> number,
                object_list |-> SubSeq(ws, bottom + 1, top), count |-> count,
                start_index |-> IF count = 0 THEN 0 ELSE bottom + 1,
                end_index |-> IF number = pages THEN count ELSE number * per_page]

\* MarkActive where a canceled warning uses up the budget too
RECURSIVE MarkActiveCanceledCounts(_, _)
MarkActiveCanceledCounts(object_list, active_warnings) ==
    IF object_list = <<>> THEN <<>>
    ELSE IF Head(object_list)
      THEN <<FALSE>> \o MarkActiveCanceledCounts(Tail(object_list), active_warnings - 1)
      ELSE <<active_warnings > 0>>
             \o MarkActiveCanceledCounts(Tail(object_list), active_warnings - 1)

\* warnings: the loop over warnings.object_list
RECURSIVE MarkActive(_, _)
MarkActive(object_list, active_warnings) ==
    IF object_list = <<>> THEN <<>>
    ELSE IF Head(object_list)
      THEN <<FALSE>> \o MarkActive(Tail(object_list), active_warnings)
      ELSE <<active_warnings > 0>> \o MarkActive(Tail(object_list), active_warnings - 1)

\* WarningProgress that divides before it multiplies
WarningProgressDividesFirst(warning_level, levels_total) ==
    IF levels_total # 0 /\ warning_level # 0
      THEN 100 - warning_level * (100 \div levels_total)
      ELSE 100

\* warnings: warning_progress (integer operands, integer division)
WarningProgress(warning_level, levels_total) ==
    IF levels_total # 0 /\ warning_level # 0
      THEN 100 - (warning_level * 100) \div levels_total
      ELSE 100

\* profile_view_restricted_visibility around warnings
WarningsPage(page, page_active) ==
    /\ LET warnings == Paginate(target.warnings, page, WarningsPerPage, WarningsOrphans)
           active_warnings == target.level - warnings.start_index + 1
           levels_total == target.levels - 1
       IN  IF ~page_active \/ ~warnings.found
             THEN view' = [NoView EXCEPT !.status = "not_found"]
             ELSE view' = [status |-> "ok", number |-> warnings.number,
                           start_index |-> warnings.start_index,
                           marks |-> MarkActive(warnings.object_list, active_warnings),
                           items_left |-> warnings.count - warnings.end_index,
                           progress |-> WarningProgress(target.level, levels_total),
                           level_set |-> (target.level # 0)]
    /\ UNCHANGED <<db, pc, req, held, wset, resp, nreq, start, target>>

\* a profile with some warnings, some canceled; its level counts warnings that
\* are not canceled and is capped by the highest configured level
InitWarnings ==
    /\ db = EmptyDb
    /\ Idle
    /\ start = [db |-> EmptyDb, user |-> 0, id |-> 0]
    /\ \E n \in 0..MaxWarnings, levels \in 1..MaxLevels :
         \E ws \in FlagSeqs(n) :
           \E level \in 0..Min(levels - 1, NonCanceled(ws)) :
             target = [warnings |-> ws, level |-> level, levels |-> levels]
    /\ view = NoView

NextWarnings ==
    \E page \in {0} \cup (2..((MaxWarnings \div WarningsPerPage) + 2)), page_active \in BOOLEAN :
        WarningsPage(page, page_active)

SpecWarnings == InitWarnings /\ [][NextWarnings]_vars

\* ------------------------------------------------------------ behaviours
\* the forum after registration of the users: nobody follows or blocks anybody
Init ==
    /\ db = EmptyDb
    /\ Idle
    /\ start = [db |-> EmptyDb, user |-> 0, id |-> 0]
    /\ target = NoTarget
    /\ view = NoView

\* every request, any number of them in flight at once
Next ==
    \/ \E p \in Procs, rq \in Requests : Request(p, rq)
    \/ \E p \in Procs : LockProfile(p)
    \/ \E p \in Procs : FollowLockUser(p)
    \/ \E p \in Procs : BlockLockUser(p)
    \/ \E p \in Procs : FollowToggle(p)
    \/ \E p \in Procs : SaveFollowers(p)
    \/ \E p \in Procs : SaveFollowing(p)
    \/ \E p \in Procs : BlockToggle(p)
    \/ \E p \in Procs, ajax \in BOOLEAN, path \in ReturnPaths : Respond(p, ajax, path)
    \/ \E p \in Procs : Fail(p)

Spec == Init /\ [][Next]_vars

\* --- every request, one at a time: the next arrives when the last is answered
NextSerial ==
    \/ \E rq \in Requests : Request(1, rq)
    \/ LockProfile(1)
    \/ FollowLockUser(1)
    \/ BlockLockUser(1)
    \/ FollowToggle(1)
    \/ SaveFollowers(1)
    \/ SaveFollowing(1)
    \/ BlockToggle(1)
    \/ \E ajax \in BOOLEAN, path \in ReturnPaths : Respond(1, ajax, path)
    \/ Fail(1)

SpecSerial == Init /\ [][NextSerial]_vars

\* --- follow actions of logged-in users on existing profiles, any number in
\* --- flight at once
FollowRequest(p, r, t) ==
    Request(p, [kind |-> "follow", user |-> r, method |-> "POST", id |-> t, slug_ok |-> TRUE])

NextFollow ==
    \/ \E p \in Procs, r \in Users, t \in Users : FollowRequest(p, r, t)
    \/ \E p \in Procs : LockProfile(p)
    \/ \E p \in Procs : FollowLockUser(p)
    \/ \E p \in Procs : FollowToggle(p)
    \/ \E p \in Procs : SaveFollowers(p)
    \/ \E p \in Procs : SaveFollowing(p)
    \/ \E p \in Procs, ajax \in BOOLEAN, path \in ReturnPaths : Respond(p, ajax, path)
    \/ \E p \in Procs : Fail(p)

SpecFollow == Init /\ [][NextFollow]_vars

\* --- scripted scenarios: follow actions of one requester on one target,
\* --- from any store that follow actions can have produced
InitScenario ==
    /\ \E fs \in SUBSET (Users \X Users) : db = DbWith(fs)
    /\ Idle
    /\ \E r \in Users, t \in Users : start = [db |-> db, user |-> r, id |-> t]
    /\ target = NoTarget
    /\ view = NoView

ScenarioRequest ==
    [kind |-> "follow", user |-> start.user, method |-> "POST", id |-> start.id,
     slug_ok |-> TRUE]

\* one client, the action twice, the second after the first has answered
TwiceRequest ==
    /\ nreq < 2
    /\ Request(1, ScenarioRequest)

NextTwice ==
    \/ TwiceRequest
    \/ LockProfile(1)
    \/ FollowLockUser(1)
    \/ FollowToggle(1)
    \/ SaveFollowers(1)
    \/ SaveFollowing(1)
    \/ \E ajax \in BOOLEAN, path \in ReturnPaths : Respond(1, ajax, path)

SpecTwice == InitScenario /\ [][NextTwice]_vars

\* a double click: two requests of the same client in flight at once
DoubleRequest(p) ==
    /\ nreq < 2
    /\ Request(p, ScenarioRequest)

NextDouble ==
    \/ \E p \in Procs : DoubleRequest(p)
    \/ \E p \in Procs : LockProfile(p)
    \/ \E p \in Procs : FollowLockUser(p)
    \/ \E p \in Procs : FollowToggle(p)
    \/ \E p \in Procs : SaveFollowers(p)
    \/ \E p \in Procs : SaveFollowing(p)
    \/ \E p \in Procs, ajax \in BOOLEAN, path \in ReturnPaths : Respond(p, ajax, path)

SpecDouble == InitScenario /\ [][NextDouble]_vars

\* ================================================================ claims
Success == {"json", "redirect"}
PreconditionErrors == {"denied", "method_not_allowed", "not_found"}
AllIdle == \A p \in Procs : pc[p] = "idle"

\* C1 (SpecFollow): after any sequence of committed follow actions, every
\* user's followers counter is the number of users following it and its
\* following counter is the number of users it follows (own profile included).
CounterConsistency ==
    \A x \in Users :
        /\ db.followers[x] = Cardinality({y \in Users : <<y, x>> \in db.follows})
        /\ db.following[x] = Cardinality({y \in Users : <<x, y>> \in db.follows})

\* C1 witness: a user follows its own profile and there is a second follow edge
CounterConsistencyWitness ==
    /\ \E x \in Users : <<x, x>> \in db.follows
    /\ Cardinality(db.follows) >= 2
    /\ AllIdle

ScenarioEdge == <<start.user, start.id>>

\* C2 (SpecTwice): two follow actions of R on T in a row put the edge R->T,
\* T.followers and R.following back to what they were; the first reports
\* is_following = (the edge was absent), the second the opposite.
ToggleRoundTrip ==
    /\ (nreq = 1 /\ pc[1] = "idle") =>
          /\ resp.out.outcome = (ScenarioEdge \notin start.db.follows)
          /\ (ScenarioEdge \in db.follows) = (ScenarioEdge \notin start.db.follows)
    /\ (nreq = 2 /\ pc[1] = "idle") =>
          /\ resp.out.outcome = (ScenarioEdge \in start.db.follows)
          /\ (ScenarioEdge \in db.follows) = (ScenarioEdge \in start.db.follows)
          /\ db.followers[start.id] = start.db.followers[start.id]
          /\ db.following[start.user] = start.db.following[start.user]

\* C2 witness: both actions have answered, the edge was there to begin with
ToggleRoundTripWitness ==
    /\ nreq = 2
    /\ pc[1] = "idle"
    /\ resp.out.status \in Success
    /\ ScenarioEdge \in start.db.follows
    /\ start.db.followers[start.id] >= 2

AfterProfileLock == {"lock_user", "toggle", "save_followers", "save_following", "respond"}
AfterToggle == {"save_followers", "save_following", "respond"}

\* C3 (SpecDouble): two concurrent follow actions of R on T never are both past
\* profile.lock(); what an action did is the opposite of the edge state
\* committed when it read it; once both have committed, the edge and the two
\* counters are what they were.
DoubleClickSerialized ==
    /\ \A p \in Procs, q \in Procs :
          (p # q /\ pc[p] \in AfterProfileLock) => pc[q] \notin AfterProfileLock
    /\ \A p \in Procs :
          pc[p] \in AfterToggle => ((req[p].did = "undo") = (ScenarioEdge \in db.follows))
    /\ (nreq = 2 /\ AllIdle) =>
          /\ (ScenarioEdge \in db.follows) = (ScenarioEdge \in start.db.follows)
          /\ db.followers[start.id] = start.db.followers[start.id]
          /\ db.following[start.user] = start.db.following[start.user]
          /\ resp.out.outcome = (ScenarioEdge \in start.db.follows)

\* C3 witness: both requests have committed
DoubleClickWitness ==
    /\ nreq = 2
    /\ AllIdle
    /\ resp.out.status \in Success
    /\ ScenarioEdge \notin start.db.follows

PreconditionsHold(rq) ==
    rq.user # Guest /\ rq.method = "POST" /\ rq.id \in Users /\ rq.slug_ok

Acceptable(asked) == ~asked.guest /\ asked.post /\ asked.resolved

\* C4 (SpecSerial): a request of a guest, with another method than POST or
\* with an unknown id or a wrong slug is answered with the error of a failed
\* precondition; it never is inside the transaction, never holds a lock or a
\* pending write, and the step that answers it leaves the store alone.
FailFast ==
    [][/\ \A p \in Procs :
            /\ pc'[p] \in InTx => PreconditionsHold(req'[p])
            /\ (held'[p] # {} \/ wset'[p] # <<>>) => pc'[p] \in InTx
       /\ (resp'.out.status # "none" /\ ~Acceptable(resp'.rq)) =>
             resp'.out.status \in PreconditionErrors
       /\ resp'.out.status = "denied" => resp'.rq.guest
       /\ resp'.out.status = "method_not_allowed" => ~resp'.rq.post
       /\ resp'.out.status = "not_found" => ~resp'.rq.resolved
       /\ (resp'.out.status \in PreconditionErrors /\ resp' # resp) => nreq' = nreq + 1
       /\ nreq' = nreq + 1 => UNCHANGED <<db, held, wset>>
       /\ (nreq' = nreq + 1 /\ pc' = pc) => resp'.out.status \in PreconditionErrors]_vars

\* C4 witness: a request for a profile that does not resolve has been answered
\* after a follow action committed
FailFastWitness ==
    /\ resp.out.status = "not_found"
    /\ AllIdle
    /\ db.follows # {}

\* C5 (SpecFollow): a follow action that fails after its transaction opened
\* leaves the committed store as it was and keeps no lock and no write; the
\* committed edges and counters agree after every step.
AtomicRollback ==
    [][/\ \A p \in Procs :
            (pc[p] \in InTx /\ pc'[p] = "idle" /\ resp'.out.status = "server_error") =>
                (db' = db /\ wset'[p] = <<>> /\ held'[p] = {})
       /\ \A x \in Users :
            /\ db'.followers[x] = Cardinality({e \in db'.follows : e[2] = x})
            /\ db'.following[x] = Cardinality({e \in db'.follows : e[1] = x})]_vars

\* C5 witness: a follow action failed after the edge and both counters were
\* written, while another follow action is in its transaction
AtomicRollbackWitness ==
    /\ resp.out.status = "server_error"
    /\ resp.out.at = "respond"
    /\ resp.rq.kind = "follow"
    /\ \E p \in Procs : pc[p] \in InTx

\* C6 (SpecSerial): a successful action of a non-AJAX request queues its
\* message once and redirects, to the return path when that is present and
\* valid and to the target's profile otherwise; a successful action of an AJAX
\* request answers the outcome, the message and is_error = false and queues
\* nothing.
ResultShaping ==
    resp.out.status \in Success =>
        /\ resp.out.message =
              (IF resp.rq.kind = "follow"
                 THEN (IF resp.out.outcome THEN "now_following" ELSE "stopped_following")
                 ELSE (IF resp.out.outcome THEN "now_blocking" ELSE "stopped_blocking"))
        /\ IF resp.rq.ajax
             THEN /\ resp.out.status = "json"
                  /\ resp.out.is_error = FALSE
                  /\ resp.out.queued = 0
                  /\ resp.out.to = "none"
             ELSE /\ resp.out.status = "redirect"
                  /\ resp.out.queued = 1
                  /\ resp.out.to = (IF resp.rq.path = "valid" THEN "return_path" ELSE "profile")

\* C6 witness: a block action of a non-AJAX request with a valid return path
\* was undone and redirected there
ResultShapingWitness ==
    /\ resp.out.status = "redirect"
    /\ resp.rq.path = "valid"
    /\ resp.rq.kind = "block"
    /\ resp.out.message = "stopped_blocking"

PageFlags == SubSeq(target.warnings, view.start_index, view.start_index + Len(view.marks) - 1)

\* C7 (SpecWarnings): on a page, with budget B = warning_level - start_index + 1,
\* a canceled warning is inactive and a warning that is not canceled is active
\* iff fewer than B warnings that are not canceled precede it on the page.
WindowWithinPage ==
    view.status = "ok" =>
        /\ \A i \in 1..Len(view.marks) :
              IF PageFlags[i]
                THEN ~view.marks[i]
                ELSE view.marks[i] =
                       (Cardinality({j \in 1..(i - 1) : ~PageFlags[j]})
                          < target.level - view.start_index + 1)
        /\ (target.level = 3 /\ target.warnings = <<FALSE, TRUE, FALSE, FALSE, FALSE>>) =>
              view.marks = <<TRUE, FALSE, TRUE, TRUE, FALSE>>

\* C7 witness: the example of level 3 and flags [false, true, false, false, false]
WindowWithinPageWitness ==
    /\ view.status = "ok"
    /\ target.level = 3
    /\ target.warnings = <<FALSE, TRUE, FALSE, FALSE, FALSE>>
    /\ view.marks = <<TRUE, FALSE, TRUE, TRUE, FALSE>>

\* C8 (SpecWarnings): warning_progress is 100 - (level * 100) div levels_total
\* when both are positive and 100 otherwise, lies in 0..100, and is 67 for
\* 4 configured levels and level 1.
ProgressValue ==
    view.status = "ok" =>
        /\ view.progress =
              (IF target.levels - 1 > 0 /\ target.level > 0
                 THEN 100 - ((target.level * 100) \div (target.levels - 1))
                 ELSE 100)
        /\ view.progress \in 0..100
        /\ (target.levels = 4 /\ target.level = 1) => view.progress = 67
        /\ target.level = 0 => view.progress = 100

\* C8 witness: 4 configured levels, level 1
ProgressValueWitness ==
    /\ view.status = "ok"
    /\ target.levels = 4
    /\ target.level = 1
    /\ view.progress = 67

\* C9 (SpecWarnings): on every page a warning is marked active iff it is not
\* canceled and is one of the warning_level most recent warnings that are not
\* canceled.
WindowAcrossPages ==
    view.status = "ok" =>
        \A i \in 1..Len(view.marks) :
            view.marks[i] =
                (/\ ~target.warnings[view.start_index + i - 1]
                 /\ Cardinality({j \in 1..(view.start_index + i - 2) : ~target.warnings[j]})
                      < target.level)

\* C10 (Spec): no two actions each hold the lock of one user row and wait for
\* the row the other holds.
NoLockCycle ==
    ~ \E p \in Procs, q \in Procs :
        /\ p # q
        /\ pc[p] = "lock_user" /\ pc[q] = "lock_user"
        /\ req[p].user \in held[q]
        /\ req[q].user \in held[p]

====
